---- MODULE Spec2Model ----
(***************************************************************************)
(* Model of src/deepim.py: the DeepIM observation aggregator.              *)
(*                                                                         *)
(* One DeepIM object: a dictionary of per-(side, obj_type) observation     *)
(* lists fed by one subscriber callback per configured pair, the queries   *)
(* last_detected / get_recent_observations / last_world_pose, and the      *)
(* registry operations stop_tracking / detect.                             *)
(*                                                                         *)
(* Time is counted in whole seconds: a stamp and the clock are integers    *)
(* and (current_time - stamp).to_sec() is their difference.                *)
(***************************************************************************)
EXTENDS Integers, Sequences, FiniteSets, TLC

VARIABLES
    sides,          \* self.sides: the configured viewpoints, in order
    subscribers,    \* self.subscribers: channel (side, obj_type) -> key its callback is bound to
    observations,   \* self.observations: key -> the list self.observations[key] yields
    now,            \* rospy.Time.now()
    delivered,      \* history: channel -> accepted messages delivered on it, in delivery order
    last,           \* the last operation performed, its arguments, result and external calls
    localizing,     \* the registry: the entities it is localizing (activated, not stopped)
    q               \* a consumer query in progress (step-wise execution)

vars == <<sides, subscribers, observations, now, delivered, last, localizing, q>>

----------------------------------------------------------------------------
(* Bounds of the model *)

MaxTime == 6        \* the clock runs 0..MaxTime
ClockStep == 3      \* in steps of ClockStep; a message is stamped now or now - ClockStep
MaxRecords == 2     \* accepted messages over all keys

----------------------------------------------------------------------------
(* Constants of the program *)

RIGHT == "right"
LEFT == "left"
SIDES == <<RIGHT, LEFT>>

\* DETECTIONS_PER_SEC = 0.6, kept as the fraction 6/10
DETECTIONS_PER_SEC_NUM == 6
DETECTIONS_PER_SEC_DEN == 10

\* duration = 5.0 in detect
DetectDuration == 5

\* CAMERA_PREFIX (imported): frame ids are strings, modelled as sequences of characters
CAMERA_PREFIX == <<"k">>

\* pybullet_tools.utils.INF, the result of last_detected on an empty list
INF == [inf |-> TRUE, sec |-> 0]

----------------------------------------------------------------------------
(* Inputs *)

\* object types the aggregator is constructed with, in order
ObjTypes == <<"a", "b">>

\* self.domain.root.entities: the object types the registry knows
Entities == {"a", "b"}

\* object types a caller may pass
CallerTypes == {"a", "b", "z"}

\* orders in which the viewpoints may be configured
SideConfigs == {<<RIGHT, LEFT>>, <<LEFT, RIGHT>>}

\* frame ids of incoming messages: two camera frames, and two that do not start with
\* the prefix (one holds it further on, one is empty)
FrameIds == {<<"k", "1">>, <<"k", "2">>, <<"w", "k">>, <<>>}

\* pose of a message: a position and an orientation, each along one axis
Poses == {[point |-> 0, quat |-> 0]}

\* poses that differ in position and orientation
PosesVaried == {[point |-> 0, quat |-> 0], [point |-> 4, quat |-> 2]}

Durations == {0, DetectDuration}

Lags == {0, ClockStep}

\* geometry_msgs PoseStamped: header.frame_id, header.stamp, pose
PoseStamped(f, t, p) == [frame_id |-> f, stamp |-> t, pose |-> p]

----------------------------------------------------------------------------
(* Helpers *)

Range(s) == {s[i] : i \in 1..Len(s)}

\* str.startswith
StartsWith(s, p) == Len(p) <= Len(s) /\ SubSeq(s, 1, Len(p)) = p

\* itertools.product(self.sides, self.obj_types), as a sequence of pairs
Product(ss, ts) ==
    [i \in 1..(Len(ss) * Len(ts)) |->
        <<ss[((i - 1) \div Len(ts)) + 1], ts[((i - 1) % Len(ts)) + 1]>>]

\* a closure over the loop variables themselves: every callback sees the last pair
BoundKeyLate(pairs, i) == pairs[Len(pairs)]

\* the key the i-th registered callback is bound to: the defaults s=side, ty=obj_type
\* of the lambda are evaluated at registration
BoundKey(pairs, i) == pairs[i]

\* every key a caller or a callback can name
Keys == Range(SIDES) \X CallerTypes

\* self.observations[key] on a defaultdict(list): the list stored under key, and the
\* empty list when the key is absent (the subscript then inserts [] under key, which
\* no access of the class can tell from the key being absent: all of them go through
\* this subscript). The model keeps one list per key, empty from construction.
Lookup(obs, key) == obs[key]

TotalRecords(obs, keys) ==
    Cardinality({<<k, i>> \in keys \X (1..MaxRecords + 1) : i <= Len(obs[k])})

\* no consumer query has been started step-wise
NoQuery == [pc |-> "idle"]

\* no consumer query is under way
Idle == q.pc \in {"idle", "returned"}

\* the record kept of one operation: its name and arguments (side, ty, dur), the
\* outcome drawn for its external calls (mode), its result (res, with the observations
\* val or the seconds sec it carries), and the calls it made to the registry (calls)
\* and to the transform listener (tfcalls)
Result(op, side, ty, dur, mode, res, val, sec, calls, tfcalls) ==
    [op |-> op, side |-> side, ty |-> ty, dur |-> dur, mode |-> mode, res |-> res,
     val |-> val, sec |-> sec, calls |-> calls, tfcalls |-> tfcalls]

----------------------------------------------------------------------------
(* Construction *)

Init ==
    /\ sides \in SideConfigs
    /\ subscribers = LET pairs == Product(sides, ObjTypes)
                     IN [ch \in Range(pairs) |->
                            BoundKey(pairs, CHOOSE i \in 1..Len(pairs) : pairs[i] = ch)]
    /\ observations = [key \in Keys |-> <<>>]
    /\ now = 0
    /\ delivered = [ch \in Range(Product(sides, ObjTypes)) |-> <<>>]
    /\ last = Result("init", "", "", 0, "", "", <<>>, 0, <<>>, <<>>)
    /\ localizing = {}
    /\ q = NoQuery

----------------------------------------------------------------------------
(* The clock *)

\* the clock moves on
Advance ==
    /\ now + ClockStep <= MaxTime
    /\ now' = now + ClockStep
    /\ UNCHANGED <<sides, subscribers, localizing, observations, delivered, q>>

Tick ==
    /\ Advance
    /\ last' = Result("tick", "", "", 0, "", "", <<>>, 0, <<>>, <<>>)

----------------------------------------------------------------------------
(* DeepIM.callback *)

\* callback putting the message at the head of the list
callbackPrepend(obs, pose_stamped, side, obj_type) ==
    LET key == <<side, obj_type>>
    IN IF ~StartsWith(pose_stamped.frame_id, CAMERA_PREFIX)
       THEN obs
       ELSE [obs EXCEPT ![key] = <<pose_stamped>> \o @]

\* callback without its frame test
callbackUnfiltered(obs, pose_stamped, side, obj_type) ==
    [obs EXCEPT ![<<side, obj_type>>] = Append(@, pose_stamped)]

\* the dictionary after callback(pose_stamped, side, obj_type)
callback(obs, pose_stamped, side, obj_type) ==
    LET key == <<side, obj_type>>
    IN IF ~StartsWith(pose_stamped.frame_id, CAMERA_PREFIX)
       THEN obs
       ELSE [obs EXCEPT ![key] = Append(@, pose_stamped)]

\* the transport delivers a message on channel ch; its subscriber's callback runs
Deliver(ch, pose_stamped) ==
    LET key == subscribers[ch]
        accepted == StartsWith(pose_stamped.frame_id, CAMERA_PREFIX)
    IN /\ accepted => TotalRecords(observations, Keys) < MaxRecords
       /\ observations' = callback(observations, pose_stamped, key[1], key[2])
       /\ delivered' = IF accepted
                       THEN [delivered EXCEPT ![ch] = Append(@, pose_stamped)]
                       ELSE delivered
       /\ UNCHANGED <<sides, subscribers, localizing, now, q>>

Callback ==
    \E ch \in DOMAIN subscribers, f \in FrameIds, lag \in Lags, p \in Poses :
        /\ lag <= now
        /\ Deliver(ch, PoseStamped(f, now - lag, p))
        /\ last' = Result("callback", ch[1], ch[2], 0, "",
                          IF StartsWith(f, CAMERA_PREFIX) THEN "accepted" ELSE "dropped",
                          <<PoseStamped(f, now - lag, p)>>, 0, <<>>, <<>>)

----------------------------------------------------------------------------
(* DeepIM.last_detected *)

\* last_detected reading the head of the list instead of its tail
last_detectedHead(buf, current_time) ==
    IF buf = <<>>
    THEN INF
    ELSE [inf |-> FALSE, sec |-> current_time - buf[1].stamp]

\* last_detected taking a list without entries as one stamped at time zero
last_detectedUnseen(buf, current_time) ==
    IF buf = <<>>
    THEN [inf |-> FALSE, sec |-> current_time]
    ELSE [inf |-> FALSE, sec |-> current_time - buf[Len(buf)].stamp]

\* the value returned for the list buf when the clock reads current_time
last_detected(buf, current_time) ==
    IF buf = <<>>
    THEN INF
    ELSE [inf |-> FALSE, sec |-> current_time - buf[Len(buf)].stamp]

LastDetected ==
    \E side \in Range(SIDES), obj_type \in CallerTypes :
        LET key == <<side, obj_type>>
            r == last_detected(Lookup(observations, key), now)
        IN /\ Idle
           /\ observations' = observations
           /\ last' = Result("last_detected", side, obj_type, 0, "",
                             IF r.inf THEN "INF" ELSE "sec", <<>>, r.sec, <<>>, <<>>)
           /\ UNCHANGED <<sides, subscribers, localizing, now, delivered, q>>

----------------------------------------------------------------------------
(* DeepIM.get_recent_observations *)

\* buf[::-1]
Reversed(buf) == [i \in 1..Len(buf) |-> buf[Len(buf) + 1 - i]]

\* the for loop over the reversed copy, from its i-th entry on, with its break
RECURSIVE ScanFrom(_, _, _, _, _)
ScanFrom(rev, i, current_time, duration, detections) ==
    IF i > Len(rev)
    THEN detections
    ELSE LET time_passed == current_time - rev[i].stamp
         IN IF duration < time_passed
            THEN detections
            ELSE ScanFrom(rev, i + 1, current_time, duration,
                          Append(detections, rev[i]))

\* list.reverse() in place of the slice
AfterReverse(obs, key) == [obs EXCEPT ![key] = Reversed(@)]

\* the dictionary after self.observations[key][::-1]: the slice is a new list, the
\* stored one stays as it is
AfterSlice(obs, key) == obs

\* get_recent_observations looking at the newest entry only
get_recent_observationsNewest(buf, current_time, duration) ==
    IF buf = <<>> \/ duration < current_time - buf[Len(buf)].stamp
    THEN <<>>
    ELSE <<buf[Len(buf)]>>

\* get_recent_observations handing the window back in the order of the list
get_recent_observationsInOrder(buf, current_time, duration) ==
    Reversed(ScanFrom(Reversed(buf), 1, current_time, duration, <<>>))

\* the list returned for the list buf when the clock reads current_time
get_recent_observations(buf, current_time, duration) ==
    ScanFrom(Reversed(buf), 1, current_time, duration, <<>>)

GetRecentObservations ==
    \E side \in Range(SIDES), obj_type \in CallerTypes, duration \in Durations :
        LET key == <<side, obj_type>>
        IN /\ Idle
           /\ observations' = AfterSlice(observations, key)
           /\ last' = Result("get_recent_observations", side, obj_type, duration, "", "ok",
                             get_recent_observations(Lookup(observations, key), now, duration),
                             0, <<>>, <<>>)
           /\ UNCHANGED <<sides, subscribers, localizing, now, delivered, q>>

----------------------------------------------------------------------------
(* DeepIM.last_world_pose *)

\* outcomes of tf_listener.transformPose: the transformed pose, or tf's exception
TfModes == {"ok", "fails"}

\* last_world_pose transforming the head of the list instead of its tail
last_world_poseHead(buf, tfmode) ==
    IF buf = <<>>
    THEN [res |-> "None", val |-> <<>>, tfcalls |-> <<>>]
    ELSE LET pose_kinect == buf[1]
         IN IF tfmode = "ok"
            THEN [res |-> "pose", val |-> <<pose_kinect>>, tfcalls |-> <<pose_kinect>>]
            ELSE [res |-> "TransformError", val |-> <<>>, tfcalls |-> <<pose_kinect>>]

\* [res, val, tfcalls] of last_world_pose on the list buf
last_world_pose(buf, tfmode) ==
    IF buf = <<>>
    THEN [res |-> "None", val |-> <<>>, tfcalls |-> <<>>]
    ELSE LET pose_kinect == buf[Len(buf)]
         IN IF tfmode = "ok"
            THEN [res |-> "pose", val |-> <<pose_kinect>>, tfcalls |-> <<pose_kinect>>]
            ELSE [res |-> "TransformError", val |-> <<>>, tfcalls |-> <<pose_kinect>>]

LastWorldPose ==
    \E side \in Range(SIDES), obj_type \in CallerTypes, tfmode \in TfModes :
        LET key == <<side, obj_type>>
            r == last_world_pose(Lookup(observations, key), tfmode)
        IN /\ Idle
           /\ observations' = observations
           /\ last' = Result("last_world_pose", side, obj_type, 0, tfmode, r.res, r.val, 0,
                             <<>>, r.tfcalls)
           /\ UNCHANGED <<sides, subscribers, localizing, now, delivered, q>>

----------------------------------------------------------------------------
(* DeepIM.stop_tracking *)

\* outcomes of the registry's calls: all succeed, or one of them raises
StopModes == {"ok", "stop_fails"}

DetectModes == {"ok", "activate_fails", "detect_fails"}

\* the registry after the calls one operation made for obj_type: activate() starts
\* the localization of the entity, stop_localizing() ends it and does nothing when
\* the entity is not being localized (line 103); a call that raises changes nothing
RegistryAfter(loc, obj_type, calls, regmode) ==
    IF "activate" \in Range(calls) /\ regmode # "activate_fails"
    THEN loc \cup {obj_type}
    ELSE IF "stop_localizing" \in Range(calls) /\ regmode # "stop_fails"
         THEN loc \ {obj_type}
         ELSE loc

\* stop_tracking without the lookup of the entity
stop_trackingUnchecked(obj_type, regmode) ==
    IF regmode = "stop_fails"
    THEN [res |-> "RegistryError", calls |-> <<"stop_localizing">>]
    ELSE [res |-> "None", calls |-> <<"stop_localizing">>]

\* stop_tracking asking the registry twice
stop_trackingTwice(obj_type, regmode) ==
    IF obj_type \notin Entities
    THEN [res |-> "KeyError", calls |-> <<>>]
    ELSE IF regmode = "stop_fails"
         THEN [res |-> "RegistryError", calls |-> <<"stop_localizing">>]
         ELSE [res |-> "None", calls |-> <<"stop_localizing", "stop_localizing">>]

\* [res, calls] of stop_tracking(obj_type)
stop_tracking(obj_type, regmode) ==
    IF obj_type \notin Entities
    THEN [res |-> "KeyError", calls |-> <<>>]
    ELSE IF regmode = "stop_fails"
         THEN [res |-> "RegistryError", calls |-> <<"stop_localizing">>]
         ELSE [res |-> "None", calls |-> <<"stop_localizing">>]

StopTracking ==
    \E obj_type \in CallerTypes, regmode \in StopModes :
        LET r == stop_tracking(obj_type, regmode)
        IN /\ Idle
           /\ last' = Result("stop_tracking", "", obj_type, 0, regmode, r.res, <<>>, 0,
                             r.calls, <<>>)
           /\ localizing' = RegistryAfter(localizing, obj_type, r.calls, regmode)
           /\ UNCHANGED <<sides, subscribers, observations, now, delivered, q>>

----------------------------------------------------------------------------
(* DeepIM.detect *)

\* the rate test against the whole, and against a quarter, of expected_detections
InsufficientWhole(n, duration) ==
    n * DETECTIONS_PER_SEC_DEN < duration * DETECTIONS_PER_SEC_NUM

InsufficientQuarter(n, duration) ==
    4 * n * DETECTIONS_PER_SEC_DEN < duration * DETECTIONS_PER_SEC_NUM

\* len(observations) < 0.5*expected_detections, with
\* expected_detections = duration * DETECTIONS_PER_SEC
Insufficient(n, duration) ==
    2 * n * DETECTIONS_PER_SEC_DEN < duration * DETECTIONS_PER_SEC_NUM

\* the keys of detections_from_frame
FramesOf(window) == {window[i].frame_id : i \in 1..Len(window)}

\* the viewpoint whose list detect evaluates, given the configured ones
PrimarySide(configured) == RIGHT

Abs(x) == IF x < 0 THEN -x ELSE x

\* combinations(range(n), r=2)
Pairs(n) == {p \in (1..n) \X (1..n) : p[1] < p[2]}

\* sum of the distances of the pairs of xs
RECURSIVE SumPairs(_, _)
SumPairs(xs, pairs) ==
    IF pairs = {}
    THEN 0
    ELSE LET p == CHOOSE pp \in pairs : TRUE
         IN Abs(xs[p[1]] - xs[p[2]]) + SumPairs(xs, pairs \ {p})

\* (pos_deviation, ori_deviation): the means, each as num/den, of the pairwise
\* distances of the points and of the pairwise angles of the orientations
mean_pose_deviation(poses) ==
    LET points == [i \in 1..Len(poses) |-> poses[i].point]
        quats == [i \in 1..Len(poses) |-> poses[i].quat]
        pairs == Pairs(Len(poses))
    IN [pos |-> [num |-> SumPairs(points, pairs), den |-> Cardinality(pairs)],
        ori |-> [num |-> SumPairs(quats, pairs), den |-> Cardinality(pairs)]]

\* the poses of the messages of a window (line 131)
PosesOf(window) == [i \in 1..Len(window) |-> window[i].pose]

\* detect turning down a window whose poses deviate
GateDeviation(window, duration, regmode) ==
    IF Insufficient(Len(window), duration)
    THEN [res |-> "False", calls |-> <<>>]
    ELSE IF Cardinality(FramesOf(window)) # 1
         THEN [res |-> "AssertionError", calls |-> <<>>]
         ELSE IF mean_pose_deviation(PosesOf(window)).pos.num > 0
              THEN [res |-> "False", calls |-> <<>>]
              ELSE IF regmode = "activate_fails"
                   THEN [res |-> "RegistryError", calls |-> <<"activate">>]
                   ELSE IF regmode = "detect_fails"
                        THEN [res |-> "RegistryError", calls |-> <<"activate", "detect">>]
                        ELSE [res |-> "True", calls |-> <<"activate", "detect">>]

\* detect without the assertion on detections_from_frame
GateUnasserted(window, duration, regmode) ==
    IF Insufficient(Len(window), duration)
    THEN [res |-> "False", calls |-> <<>>]
    ELSE IF regmode = "activate_fails"
         THEN [res |-> "RegistryError", calls |-> <<"activate">>]
         ELSE IF regmode = "detect_fails"
              THEN [res |-> "RegistryError", calls |-> <<"activate", "detect">>]
              ELSE [res |-> "True", calls |-> <<"activate", "detect">>]

\* detect going on to entity.detect() after an activate() that raised
GateCarryingOn(window, duration, regmode) ==
    IF Insufficient(Len(window), duration)
    THEN [res |-> "False", calls |-> <<>>]
    ELSE IF Cardinality(FramesOf(window)) # 1
         THEN [res |-> "AssertionError", calls |-> <<>>]
         ELSE IF regmode \in {"activate_fails", "detect_fails"}
              THEN [res |-> "RegistryError", calls |-> <<"activate", "detect">>]
              ELSE [res |-> "True", calls |-> <<"activate", "detect">>]

\* [res, calls] of detect once the window has been fetched (lines 131-134 compute
\* and print the pose deviations of the window, and decide nothing)
Gate(window, duration, regmode) ==
    IF Insufficient(Len(window), duration)
    THEN [res |-> "False", calls |-> <<>>]
    ELSE IF Cardinality(FramesOf(window)) # 1
         THEN [res |-> "AssertionError", calls |-> <<>>]
         ELSE IF regmode = "activate_fails"
              THEN [res |-> "RegistryError", calls |-> <<"activate">>]
              ELSE IF regmode = "detect_fails"
                   THEN [res |-> "RegistryError", calls |-> <<"activate", "detect">>]
                   ELSE [res |-> "True", calls |-> <<"activate", "detect">>]

\* detect leaving out lines 141-144 for an entity the registry is localizing already
detectOnce(tracked, window, duration, regmode) ==
    IF tracked /\ Gate(window, duration, "ok").res = "True"
    THEN [res |-> "True", calls |-> <<>>]
    ELSE Gate(window, duration, regmode)

\* [res, calls] of detect for an entity the registry is (tracked) or is not localizing:
\* detect reads nothing of the entity's state (lines 148-154 are comments) and keeps
\* nothing from one call to the next
detect(tracked, window, duration, regmode) == Gate(window, duration, regmode)

Detect ==
    \E obj_type \in CallerTypes, regmode \in DetectModes :
        /\ Idle
        /\ IF obj_type \notin Entities
           THEN /\ observations' = observations
                /\ localizing' = localizing
                /\ last' = Result("detect", "", obj_type, DetectDuration, regmode, "KeyError",
                                  <<>>, 0, <<>>, <<>>)
           ELSE LET key == <<PrimarySide(sides), obj_type>>
                    window == get_recent_observations(Lookup(observations, key), now,
                                                      DetectDuration)
                    r == detect(obj_type \in localizing, window, DetectDuration, regmode)
                IN /\ observations' = AfterSlice(observations, key)
                   /\ localizing' = RegistryAfter(localizing, obj_type, r.calls, regmode)
                   /\ last' = Result("detect", key[1], obj_type, DetectDuration, regmode, r.res,
                                     window, 0, r.calls, <<>>)
        /\ UNCHANGED <<sides, subscribers, now, delivered, q>>

----------------------------------------------------------------------------

(* The consumer queries, one shared access at a time.                      *)
(*                                                                         *)
(* Subscriber callbacks run on the transport's threads while a consumer    *)
(* thread is inside a query. A step below is one access to the dictionary  *)
(* or to the clock: a subscript, a slice, an append or a clock read runs   *)
(* to completion under the interpreter lock, and the threads switch        *)
(* between them. q holds the consumer's position, locals and result, with  *)
(* len0 (the length of the key's list when the query began) and n (its     *)
(* length when the query read it) kept for the properties.                 *)

Begin(op, key, dur, pc) ==
    [pc |-> pc, op |-> op, key |-> key, dur |-> dur, t |-> now,
     len0 |-> Len(observations[key]), n |-> 0, seen |-> <<>>,
     res |-> "", val |-> <<>>, sec |-> 0]

\* a callback running on a transport thread
Producer ==
    \E ch \in DOMAIN subscribers, f \in FrameIds, lag \in Lags, p \in Poses :
        /\ lag <= now
        /\ Deliver(ch, PoseStamped(f, now - lag, p))
        /\ UNCHANGED last

Clock == Advance /\ UNCHANGED last

\* get_recent_observations, lines 87-88: detections = [], current_time = now
RecentBegin ==
    \E side \in Range(SIDES), obj_type \in CallerTypes, duration \in Durations :
        /\ Idle
        /\ q' = Begin("get_recent_observations", <<side, obj_type>>, duration,
                      "recent_slice")
        /\ UNCHANGED <<sides, subscribers, localizing, observations, now, delivered, last>>

\* line 89: the reversed copy; lines 89-94 then run on the copy alone
RecentSlice ==
    /\ q.pc = "recent_slice"
    /\ observations' = AfterSlice(observations, q.key)
    /\ q' = [q EXCEPT !.pc = "returned", !.n = Len(observations[q.key]),
                      !.seen = observations[q.key], !.res = "ok",
                      !.val = ScanFrom(Reversed(observations[q.key]), 1, q.t, q.dur,
                                       <<>>)]
    /\ UNCHANGED <<sides, subscribers, localizing, now, delivered, last>>

\* last_detected, line 80: the emptiness test
LastDetectedBegin ==
    \E side \in Range(SIDES), obj_type \in CallerTypes :
        LET b == Begin("last_detected", <<side, obj_type>>, 0, "ld_tail")
        IN /\ Idle
           /\ q' = IF observations[b.key] = <<>>
                   THEN [b EXCEPT !.pc = "returned", !.res = "INF"]
                   ELSE b
           /\ UNCHANGED <<sides, subscribers, localizing, observations, now, delivered, last>>

\* line 82: pose_stamped = self.observations[side, obj_type][-1]
LastDetectedTail ==
    /\ q.pc = "ld_tail"
    /\ q' = [q EXCEPT !.pc = "ld_clock", !.n = Len(observations[q.key]),
                      !.seen = <<observations[q.key][Len(observations[q.key])]>>]
    /\ UNCHANGED <<sides, subscribers, localizing, observations, now, delivered, last>>

\* lines 83-85: the clock is read, the difference returned
LastDetectedClock ==
    /\ q.pc = "ld_clock"
    /\ q' = [q EXCEPT !.pc = "returned", !.t = now, !.res = "sec",
                      !.sec = last_detected(q.seen, now).sec]
    /\ UNCHANGED <<sides, subscribers, localizing, observations, now, delivered, last>>

\* last_world_pose, line 96: the emptiness test
LastWorldPoseBegin ==
    \E side \in Range(SIDES), obj_type \in CallerTypes :
        LET b == Begin("last_world_pose", <<side, obj_type>>, 0, "lwp_tail")
        IN /\ Idle
           /\ q' = IF observations[b.key] = <<>>
                   THEN [b EXCEPT !.pc = "returned", !.res = "None"]
                   ELSE b
           /\ UNCHANGED <<sides, subscribers, localizing, observations, now, delivered, last>>

\* lines 99-101: the tail is read and handed to the transform listener
LastWorldPoseTail ==
    \E tfmode \in TfModes :
        LET tail == <<observations[q.key][Len(observations[q.key])]>>
            r == last_world_pose(tail, tfmode)
        IN /\ q.pc = "lwp_tail"
           /\ q' = [q EXCEPT !.pc = "returned", !.n = Len(observations[q.key]),
                             !.seen = tail, !.res = r.res, !.val = r.val]
           /\ UNCHANGED <<sides, subscribers, localizing, observations, now, delivered, last>>

NextConc ==
    \/ Clock
    \/ Producer
    \/ RecentBegin
    \/ RecentSlice
    \/ LastDetectedBegin
    \/ LastDetectedTail
    \/ LastDetectedClock
    \/ LastWorldPoseBegin
    \/ LastWorldPoseTail

SpecConc == Init /\ [][NextConc]_vars

----------------------------------------------------------------------------
(* Reading aids for the properties below *)

\* the key an operation record is about
KeyOf(r) == <<r.side, r.ty>>

\* age of an observation when the clock reads t
Age(o, t) == t - o.stamp

\* the accepted messages delivered so far on the channel of key (none: no such channel)
DeliveredOn(key) == IF key \in DOMAIN delivered THEN delivered[key] ELSE <<>>

\* length of the longest suffix of buf whose entries all have age <= d at time t
TrailingLen(buf, t, d) ==
    CHOOSE n \in 0..Len(buf) :
        /\ \A i \in (Len(buf) - n + 1)..Len(buf) : Age(buf[i], t) <= d
        /\ n < Len(buf) => Age(buf[Len(buf) - n], t) > d

\* the frame ids in that suffix
TrailingFrames(buf, t, d) ==
    {buf[i].frame_id : i \in (Len(buf) - TrailingLen(buf, t, d) + 1)..Len(buf)}

\* the list detect evaluates: the one of the RIGHT viewpoint and the requested type
GateBuffer(r) == observations[<<RIGHT, r.ty>>]

\* a detect call on a known object type
DetectCall(r) == r.op = "detect" /\ r.ty \in Entities

----------------------------------------------------------------------------

Next ==
    \/ Tick
    \/ Callback
    \/ LastDetected
    \/ GetRecentObservations
    \/ LastWorldPose
    \/ StopTracking
    \/ Detect

Spec == Init /\ [][Next]_vars

----------------------------------------------------------------------------
(* Messages of differing poses on the channels of the viewpoint detect evaluates *)

CallbackPosed ==
    \E ch \in {c \in DOMAIN subscribers : c[1] = RIGHT}, f \in FrameIds, lag \in Lags,
       p \in PosesVaried :
        /\ lag <= now
        /\ Deliver(ch, PoseStamped(f, now - lag, p))
        /\ last' = Result("callback", ch[1], ch[2], 0, "",
                          IF StartsWith(f, CAMERA_PREFIX) THEN "accepted" ELSE "dropped",
                          <<PoseStamped(f, now - lag, p)>>, 0, <<>>, <<>>)

NextPose ==
    \/ Tick
    \/ CallbackPosed
    \/ Detect

SpecPose == Init /\ [][NextPose]_vars

----------------------------------------------------------------------------
(* Properties *)

\* C1: get_recent_observations(key, duration) returns exactly the observations of
\* the key whose age is <= duration: every returned one is that recent, and none
\* that recent is left out, whatever order the stamps arrived in.
C1_WindowExact ==
    last.op = "get_recent_observations" =>
        LET buf == observations[KeyOf(last)]
            recent == {i \in 1..Len(buf) : Age(buf[i], now) <= last.dur}
        IN /\ \A j \in 1..Len(last.val) : Age(last.val[j], now) <= last.dur
           /\ \A i \in recent : \E j \in 1..Len(last.val) : last.val[j] = buf[i]
           /\ Len(last.val) = Cardinality(recent)

\* C2: when the trailing window (5 s) of the list detect evaluates holds at least
\* 1.5 observations, all of one frame id, detect on a known type with a working
\* registry returns True after exactly activate() then detect().
C2_Activated ==
    ( /\ DetectCall(last)
      /\ last.mode = "ok"
      /\ 2 * TrailingLen(GateBuffer(last), now, 5) >= 3
      /\ Cardinality(TrailingFrames(GateBuffer(last), now, 5)) = 1 )
    => /\ last.res = "True"
       /\ last.calls = <<"activate", "detect">>
       /\ last.tfcalls = <<>>

C2_Witness ==
    /\ DetectCall(last)
    /\ last.mode = "ok"
    /\ 2 * TrailingLen(GateBuffer(last), now, 5) >= 3
    /\ Cardinality(TrailingFrames(GateBuffer(last), now, 5)) = 1
    /\ last.res = "True"

\* C3: when that trailing window holds fewer than 1.5 observations, the detect call
\* returns False, calls nothing of the registry and leaves every list as it was.
C3_Rejected ==
    [][ ( /\ DetectCall(last')
          /\ 2 * TrailingLen(observations'[<<RIGHT, last'.ty>>], now', 5) < 3 )
        => /\ last'.res = "False"
           /\ last'.calls = <<>>
           /\ last'.tfcalls = <<>>
           /\ observations' = observations ]_vars

C3_Witness ==
    /\ DetectCall(last)
    /\ Len(GateBuffer(last)) = 1
    /\ TrailingLen(GateBuffer(last), now, 5) = 1
    /\ last.res = "False"
    /\ last.calls = <<>>

\* C4: when the evaluated window holds enough observations but of more than one
\* frame id, detect ends in a fault that is neither of its two return values, and
\* the registry is not called.
C4_AmbiguousFault ==
    ( /\ DetectCall(last)
      /\ 2 * TrailingLen(GateBuffer(last), now, 5) >= 3
      /\ Cardinality(TrailingFrames(GateBuffer(last), now, 5)) > 1 )
    => /\ last.res = "AssertionError"
       /\ last.res \notin {"True", "False"}
       /\ last.calls = <<>>

C4_Witness ==
    /\ DetectCall(last)
    /\ 2 * TrailingLen(GateBuffer(last), now, 5) >= 3
    /\ Cardinality(TrailingFrames(GateBuffer(last), now, 5)) > 1
    /\ last.res = "AssertionError"

\* C5: last_detected(key) is the clock minus the stamp of the message accepted last
\* on the key, and it is INF exactly when the key's list is empty.
C5_TimeSinceLast ==
    last.op = "last_detected" =>
        LET d == DeliveredOn(KeyOf(last))
        IN /\ last.res = "INF" <=> observations[KeyOf(last)] = <<>>
           /\ d = <<>> => last.res = "INF"
           /\ d # <<>> => last.res = "sec" /\ last.sec = now - d[Len(d)].stamp

C5_Witness ==
    /\ last.op = "last_detected"
    /\ Len(DeliveredOn(KeyOf(last))) = 2
    /\ DeliveredOn(KeyOf(last))[1].stamp # DeliveredOn(KeyOf(last))[2].stamp
    /\ last.res = "sec"
    /\ last.sec > 0

\* C6: a delivered message is appended to the list of its channel's key exactly
\* when its frame id starts with CAMERA_PREFIX; otherwise nothing changes, and
\* with that last_detected of the key stays what it was.
C6_PrefixFilter ==
    [][ last'.op = "callback" =>
            LET m == last'.val[1]
                key == KeyOf(last')
            IN IF StartsWith(m.frame_id, CAMERA_PREFIX)
               THEN /\ last'.res = "accepted"
                    /\ observations'[key] = Append(observations[key], m)
               ELSE /\ last'.res = "dropped"
                    /\ observations' = observations
                    /\ last_detected(observations'[key], now')
                           = last_detected(observations[key], now) ]_vars

C6_Witness ==
    /\ last.op = "callback"
    /\ last.res = "dropped"
    /\ last.val[1].frame_id # <<>>
    /\ observations[KeyOf(last)] = <<>>
    /\ \E k \in Keys : observations[k] # <<>>

\* C7: detect(obj_type) evaluates the list of the first configured viewpoint and
\* obj_type: its outcome is the one that list's trailing window calls for.
C7_FirstConfigured ==
    (DetectCall(last) /\ last.mode = "ok") =>
        LET buf == observations[<<sides[1], last.ty>>]
            n == TrailingLen(buf, now, 5)
            frames == TrailingFrames(buf, now, 5)
        IN last.res = IF 2 * n < 3 THEN "False"
                      ELSE IF Cardinality(frames) = 1 THEN "True"
                      ELSE "AssertionError"

\* C9: the list of every key is the sequence of the messages accepted on that
\* key's own channel, in delivery order (empty for a key without a channel).
C9_PerKeyOrder ==
    \A key \in Keys : observations[key] = DeliveredOn(key)

C9_Witness ==
    /\ Len(observations[<<LEFT, "a">>]) = 1
    /\ Len(observations[<<RIGHT, "b">>]) = 1
    /\ observations[<<LEFT, "a">>] # observations[<<RIGHT, "b">>]
    /\ last.op = "callback"

ConsumerOps ==
    {"last_detected", "get_recent_observations", "last_world_pose", "stop_tracking",
     "detect"}

\* C10: no consumer operation changes a list; a list changes only in a callback.
C10_ReadOnly ==
    [][ /\ last'.op \in ConsumerOps => observations' = observations
        /\ observations' # observations => last'.op = "callback" ]_vars

C10_Witness ==
    /\ last.op = "get_recent_observations"
    /\ Len(last.val) = 2
    /\ last.val[1] # last.val[2]

\* C8: whatever callbacks interleave with a query, what the query read of its key's
\* list is a state the list was in between the query's start and its end: the
\* first n entries of the list as it is afterwards, for an n no smaller than the
\* list's length at the start; the tail-reading queries read the n-th entry.
C8_Snapshot ==
    q.pc = "returned" =>
        LET buf == observations[q.key]
        IN /\ q.len0 <= q.n
           /\ q.n <= Len(buf)
           /\ q.op = "get_recent_observations" => q.seen = SubSeq(buf, 1, q.n)
           /\ q.op \in {"last_detected", "last_world_pose"} =>
                  \/ q.n = 0 /\ q.len0 = 0 /\ q.seen = <<>>
                  \/ q.n >= 1 /\ q.seen = <<buf[q.n]>>

C8_Witness ==
    /\ q.pc = "returned"
    /\ q.op = "get_recent_observations"
    /\ q.len0 = 0
    /\ q.n = 1
    /\ Len(observations[q.key]) = 2

\* C11: stop_tracking on a known object type, with a registry whose stop_localizing
\* does not raise, returns without error whatever came before it (an entity not being
\* localized, a stop_tracking just before), calls stop_localizing once at most and
\* neither activate nor detect, and leaves an entity that was not localized as it was.
C11_StopIdempotent ==
    [][ ( /\ last'.op = "stop_tracking"
          /\ last'.ty \in Entities
          /\ last'.mode = "ok" )
        => /\ last'.res = "None"
           /\ Len(last'.calls) <= 1
           /\ Range(last'.calls) \subseteq {"stop_localizing"}
           /\ localizing' = localizing \ {last'.ty}
           /\ last'.ty \notin localizing => localizing' = localizing
           /\ observations' = observations ]_vars

\* a stop_tracking that succeeded on an entity never activated (no list has held
\* an observation yet, so no detect has got as far as activate)
C11_Witness ==
    /\ last.op = "stop_tracking"
    /\ last.ty \in Entities
    /\ last.res = "None"
    /\ last.calls = <<"stop_localizing">>
    /\ localizing = {}
    /\ \A key \in Keys : observations[key] = <<>>

\* C12: detect or stop_tracking with an object type the registry has no entity for
\* ends in the lookup's KeyError: no call reaches the registry or the transform
\* listener, and no list and nothing of the registry changes, so that what later
\* calls do is what they would have done without it.
C12_UnknownType ==
    [][ ( /\ last'.op \in {"detect", "stop_tracking"}
          /\ last'.ty \notin Entities )
        => /\ last'.res = "KeyError"
           /\ last'.calls = <<>>
           /\ last'.tfcalls = <<>>
           /\ observations' = observations
           /\ localizing' = localizing
           /\ now' = now ]_vars

\* a stop_tracking of an unknown type while an entity is being localized
C12_Witness ==
    /\ last.op = "stop_tracking"
    /\ last.ty \notin Entities
    /\ last.res = "KeyError"
    /\ localizing # {}

\* C13: last_world_pose(key) returns None, without a call of the transform listener,
\* exactly when the key's list is empty; otherwise it asks for one transform, that
\* of the message accepted last on the key as the list stands at the call, and what
\* it returns is the transform of that message.
C13_WorldPose ==
    last.op = "last_world_pose" =>
        LET d == DeliveredOn(KeyOf(last))
        IN /\ last.res = "None" <=> observations[KeyOf(last)] = <<>>
           /\ last.tfcalls = <<>> <=> observations[KeyOf(last)] = <<>>
           /\ d # <<>> => /\ last.tfcalls = <<d[Len(d)]>>
                          /\ last.mode = "ok" => /\ last.res = "pose"
                                                 /\ last.val = <<d[Len(d)]>>

\* a transform of the second of two different messages of one key
C13_Witness ==
    /\ last.op = "last_world_pose"
    /\ Len(DeliveredOn(KeyOf(last))) = 2
    /\ DeliveredOn(KeyOf(last))[1] # DeliveredOn(KeyOf(last))[2]
    /\ last.res = "pose"
    /\ last.tfcalls = <<DeliveredOn(KeyOf(last))[2]>>

\* C14 (as stated): get_recent_observations(key, 0) returns at most one observation,
\* the newest one of the key when its age is zero, and nothing otherwise.
C14_AtMostOne ==
    (last.op = "get_recent_observations" /\ last.dur = 0) =>
        LET buf == observations[KeyOf(last)]
        IN /\ Len(last.val) <= 1
           /\ last.val = IF buf # <<>> /\ Age(buf[Len(buf)], now) = 0
                         THEN <<buf[Len(buf)]>>
                         ELSE <<>>

\* C14 (amended): get_recent_observations(key, 0) returns nothing when the key has
\* no observation or its newest one is older than zero; otherwise it returns the
\* newest one followed by every observation directly before it whose age is not
\* above zero either, newest first: as many as carry the current timestamp.
C14_ZeroWindow ==
    (last.op = "get_recent_observations" /\ last.dur = 0) =>
        LET buf == observations[KeyOf(last)]
            n == TrailingLen(buf, now, 0)
        IN /\ last.val = <<>> <=> (buf = <<>> \/ Age(buf[Len(buf)], now) > 0)
           /\ Len(last.val) = n
           /\ \A j \in 1..n : /\ last.val[j] = buf[Len(buf) + 1 - j]
                               /\ Age(last.val[j], now) <= 0

\* a window of duration zero holding two observations
C14_Witness ==
    /\ last.op = "get_recent_observations"
    /\ last.dur = 0
    /\ Len(last.val) = 2
    /\ Age(last.val[1], now) = 0
    /\ Age(last.val[2], now) = 0

StoreQueries == {"last_detected", "get_recent_observations", "last_world_pose"}

\* C15: a query of a key on which no message was ever accepted, a key without a
\* channel included, raises nothing and answers as for an empty list: last_detected
\* INF, get_recent_observations the empty list, last_world_pose None without a
\* transform; and it leaves every list, the registry and the clock as they were.
C15_UnseenKey ==
    [][ ( /\ last'.op \in StoreQueries
          /\ DeliveredOn(KeyOf(last')) = <<>> )
        => /\ last'.op = "last_detected" => last'.res = "INF"
           /\ last'.op = "get_recent_observations" => last'.res = "ok" /\ last'.val = <<>>
           /\ last'.op = "last_world_pose" => last'.res = "None" /\ last'.val = <<>>
           /\ last'.tfcalls = <<>>
           /\ last'.calls = <<>>
           /\ observations' = observations
           /\ localizing' = localizing
           /\ now' = now ]_vars

\* last_detected of a key without a channel while another key holds an observation
C15_Witness ==
    /\ last.op = "last_detected"
    /\ KeyOf(last) \notin DOMAIN delivered
    /\ last.res = "INF"
    /\ \E key \in Keys : observations[key] # <<>>

\* C16: when a call of the registry or of the transform listener raises inside detect
\* or last_world_pose, the caller gets that failure as the call's outcome; the call
\* that failed was made once, no registry call follows it (a failing activate() is
\* not followed by detect()), and no list changes.
C16_FailurePropagates ==
    [][ /\ ( /\ DetectCall(last')
             /\ last'.mode \in {"activate_fails", "detect_fails"}
             /\ 2 * TrailingLen(observations[<<RIGHT, last'.ty>>], now, 5) >= 3
             /\ Cardinality(TrailingFrames(observations[<<RIGHT, last'.ty>>], now, 5)) = 1 )
           => /\ last'.res = "RegistryError"
              /\ last'.calls = IF last'.mode = "activate_fails"
                               THEN <<"activate">>
                               ELSE <<"activate", "detect">>
              /\ last'.tfcalls = <<>>
              /\ observations' = observations
        /\ ( /\ last'.op = "last_world_pose"
             /\ last'.mode = "fails"
             /\ observations[KeyOf(last')] # <<>> )
           => /\ last'.res = "TransformError"
              /\ last'.val = <<>>
              /\ Len(last'.tfcalls) = 1
              /\ last'.calls = <<>>
              /\ observations' = observations ]_vars

\* a detect whose activate() raised
C16_Witness ==
    /\ DetectCall(last)
    /\ last.mode = "activate_fails"
    /\ last.res = "RegistryError"
    /\ last.calls = <<"activate">>

\* what the trailing window of the list buf calls for at time t, the registry's
\* calls ending as mode says
Called(buf, t, mode) ==
    LET n == TrailingLen(buf, t, 5)
        frames == TrailingFrames(buf, t, 5)
    IN IF 2 * n < 3
       THEN [res |-> "False", calls |-> <<>>]
       ELSE IF Cardinality(frames) # 1
            THEN [res |-> "AssertionError", calls |-> <<>>]
            ELSE IF mode = "ok"
                 THEN [res |-> "True", calls |-> <<"activate", "detect">>]
                 ELSE IF mode = "activate_fails"
                      THEN [res |-> "RegistryError", calls |-> <<"activate">>]
                      ELSE [res |-> "RegistryError", calls |-> <<"activate", "detect">>]

\* C17: the result of detect and the registry calls it makes are given by the list
\* it evaluates and the clock at the call (and by how the registry's calls end),
\* whatever earlier detect and stop_tracking calls did: an entity the registry is
\* localizing already is evaluated, activated and detected like any other.
C17_GateStateless ==
    [][ DetectCall(last') =>
            /\ last'.res = Called(observations'[<<RIGHT, last'.ty>>], now', last'.mode).res
            /\ last'.calls = Called(observations'[<<RIGHT, last'.ty>>], now', last'.mode).calls
            /\ last'.res = "True" => last'.calls = <<"activate", "detect">>
            /\ (last.op = "detect" /\ last.ty = last'.ty /\ last.mode = last'.mode)
                   => (last'.res = last.res /\ last'.calls = last.calls) ]_vars

\* a detect that called activate() for an entity an earlier detect had activated
C17_Witness ==
    /\ DetectCall(last)
    /\ last.ty \in localizing
    /\ last.mode = "activate_fails"
    /\ last.calls = <<"activate">>

\* C18: what get_recent_observations returns is a suffix of the key's list, newest
\* entry first: every entry of it has age <= duration, and the entry of the list
\* just before the suffix, if there is one, has age > duration.
C18_Suffix ==
    last.op = "get_recent_observations" =>
        LET buf == observations[KeyOf(last)]
            n == Len(last.val)
        IN /\ n <= Len(buf)
           /\ \A j \in 1..n : /\ last.val[j] = buf[Len(buf) + 1 - j]
                               /\ Age(last.val[j], now) <= last.dur
           /\ n < Len(buf) => Age(buf[Len(buf) - n], now) > last.dur

\* a window of two different observations
C18_Witness ==
    /\ last.op = "get_recent_observations"
    /\ last.dur = DetectDuration
    /\ Len(last.val) = 2
    /\ last.val[1].stamp > last.val[2].stamp

\* the lists that agree with buf on every stamp and frame id, whatever their poses
Reposed(buf) ==
    {[i \in 1..Len(buf) |-> [buf[i] EXCEPT !.pose = f[i]]] :
        f \in [1..Len(buf) -> PosesVaried]}

\* C19: detect returns the same result and makes the same registry calls for every
\* list that agrees with the evaluated one on the stamps and frame ids of its
\* observations, whatever the poses and however far apart they lie.
C19_PoseBlind ==
    DetectCall(last) =>
        \A other \in Reposed(GateBuffer(last)) :
            LET r == detect(last.ty \in localizing,
                            get_recent_observations(other, now, DetectDuration),
                            DetectDuration, last.mode)
            IN r.res = last.res /\ r.calls = last.calls

\* a detect that activated on a window whose poses lie apart
C19_Witness ==
    /\ DetectCall(last)
    /\ last.res = "True"
    /\ last.calls = <<"activate", "detect">>
    /\ mean_pose_deviation(PosesOf(last.val)).pos.num > 0
    /\ mean_pose_deviation(PosesOf(last.val)).ori.num > 0

\* C20: the list of a key stays bounded however many messages are accepted on it:
\* it stays shorter than the number of messages accepted (a capacity), or what it
\* holds is inside the largest window queried, older observations being evicted.
C20_Bounded ==
    \A key \in Keys :
        LET buf == observations[key]
        IN \/ Len(buf) < Len(DeliveredOn(key))
           \/ \A i \in 1..Len(buf) : Age(buf[i], now) <= DetectDuration

====
